---------------------------- MODULE Spec2Model ----------------------------
(***************************************************************************)
(* A model of src/Backend/simple_blockchain.py: the Blockchain class (the  *)
(* chain, the pending transaction pool, the peer set, proof of work, chain *)
(* validation, longest-chain consensus) and the Flask handlers that drive  *)
(* it.                                                                     *)
(*                                                                         *)
(* Strings are sequences of character codes: the decimal digits are 0..9,  *)
(* the hexadecimal digits 0..15, and the JSON keys and punctuation have    *)
(* codes from 20 on.  SHA-256 is abstracted to a deterministic mixing      *)
(* function over the characters of its input, with a digest space of       *)
(* HashSpace values printed as DigestLen hexadecimal digits.               *)
(***************************************************************************)
EXTENDS Integers, Sequences, FiniteSets, Bags, TLC

\* ------------------------------------------------------------------ bounds
\* trigger-mine is offered while the local chain is shorter than this
MaxChain == 3
\* record-transaction is offered while the pool holds fewer than this
MaxPool == 1
\* the same, for a node that never resolves
MaxLocalPool == 2
\* the proof search is followed up to this nonce
MaxProof == 40
\* the longest chain a peer serves
MaxPeerLen == 4
\* the proof search is tried on the last proofs up to this one
MaxLastProof == 9

\* --------------------------------------------------------------- constants
DIFFICULTY == 4
GenesisProof == 100
NodeId == 1
PeerId == 2
HashSpace == 251
DigestLen == 5

Last(s) == s[Len(s)]

\* ---------------------------------------------------------------- strings
RECURSIVE Str(_)
\* str(n) of a non-negative integer: its decimal digits
Str(n) == IF n < 10 THEN <<n>> ELSE Str(n \div 10) \o <<n % 10>>

RECURSIVE HexDigits(_, _)
\* n printed as w hexadecimal digits, most significant first
HexDigits(n, w) == IF w = 0 THEN <<>> ELSE HexDigits(n \div 16, w - 1) \o <<n % 16>>

RECURSIVE Mix(_, _, _)
\* the mixing function standing for SHA-256, folded over the characters of s
\* from the i-th on
Mix(s, i, h) ==
    IF i > Len(s) THEN h ELSE Mix(s, i + 1, (h * 31 + s[i] + 7) % HashSpace)

\* hashlib.sha256(s).hexdigest()
sha256_hexdigest(s) == HexDigits(Mix(s, 1, 0), DigestLen)

RECURSIVE Zeros(_)
\* '0' * n
Zeros(n) == IF n = 0 THEN <<>> ELSE <<0>> \o Zeros(n - 1)

\* s[:n]
Prefix(s, n) == SubSeq(s, 1, IF n < Len(s) THEN n ELSE Len(s))

\* ------------------------------------------------------------------- JSON
KeyAmount == 20
KeyIndex == 21
KeyPreviousHash == 22
KeyProof == 23
KeyRecipient == 24
KeySender == 25
KeyTimestamp == 26
KeyTransactions == 27
ListOpen == 28
ListClose == 29

\* json.dumps(tx, sort_keys=True): amount, recipient, sender
dumps_tx(tx) ==
    <<KeyAmount>> \o Str(tx.amount) \o <<KeyRecipient>> \o Str(tx.recipient)
        \o <<KeySender>> \o Str(tx.sender)

RECURSIVE dumps_txs(_)
dumps_txs(txs) == IF txs = <<>> THEN <<>> ELSE dumps_tx(Head(txs)) \o dumps_txs(Tail(txs))

\* json.dumps(block, sort_keys=True): the keys the block has, in sorted order
json_dumps(block) ==
    (IF "index" \in DOMAIN block THEN <<KeyIndex>> \o Str(block.index) ELSE <<>>)
    \o (IF "previous_hash" \in DOMAIN block
            THEN <<KeyPreviousHash>> \o block.previous_hash ELSE <<>>)
    \o (IF "proof" \in DOMAIN block THEN <<KeyProof>> \o Str(block.proof) ELSE <<>>)
    \o (IF "timestamp" \in DOMAIN block
            THEN <<KeyTimestamp>> \o Str(block.timestamp) ELSE <<>>)
    \o (IF "transactions" \in DOMAIN block
            THEN <<KeyTransactions, ListOpen>> \o dumps_txs(block.transactions)
                     \o <<ListClose>>
            ELSE <<>>)

\* Blockchain.hash
hash(block) == sha256_hexdigest(json_dumps(block))

\* ---------------------------------------------------------- proof of work
\* Blockchain.valid_proof, with the target given
valid_proof(last_proof, proof, last_hash, target) ==
    LET guess == Str(last_proof) \o Str(proof) \o last_hash
        guess_hash == sha256_hexdigest(guess)
    IN  Prefix(guess_hash, Len(target)) = target

\* the default target of valid_proof
DefaultTarget == Zeros(DIFFICULTY)

RECURSIVE pow_search_by_two(_, _, _, _)
\* the while loop of proof_of_work stepping over every other nonce
pow_search_by_two(last_proof, last_hash, target, proof) ==
    IF proof > MaxProof \/ valid_proof(last_proof, proof, last_hash, target)
        THEN proof
        ELSE pow_search_by_two(last_proof, last_hash, target, proof + 2)

RECURSIVE pow_search(_, _, _, _)
\* the while loop of proof_of_work, followed up to MaxProof
pow_search(last_proof, last_hash, target, proof) ==
    IF proof > MaxProof \/ valid_proof(last_proof, proof, last_hash, target)
        THEN proof
        ELSE pow_search(last_proof, last_hash, target, proof + 1)

\* Blockchain.proof_of_work; a result above MaxProof stands for a search
\* that has not ended within the bound
proof_of_work(last_proof, last_hash) ==
    pow_search(last_proof, last_hash, Zeros(DIFFICULTY), 0)


\* ------------------------------------------------------------------ ledger
VARIABLES
    chain,                  \* Blockchain.chain
    current_transactions,   \* Blockchain.current_transactions
    nodes,                  \* Blockchain.nodes
    op,                     \* the handler that ran last
    ret,                    \* what it returned, or the exception it raised
    net,                    \* the response each peer gives to GET /chain, by name
    order,                  \* the order in which it visited the peers
    before,                 \* the chain when it started
    pending,                \* the calls of new_transaction since the last new_block
    threads                 \* the local variables of the requests being handled

vars ==
    <<chain, current_transactions, nodes, net, op, ret, order, before, pending, threads>>

\* new_block emptying the pool without embedding it
new_block_dropping_pool(ch, txs, proof, previous_hash, now) ==
    LET block == [index |-> Len(ch) + 1,
                  timestamp |-> now,
                  transactions |-> <<>>,
                  proof |-> proof,
                  previous_hash |-> IF previous_hash # <<>> THEN previous_hash
                                    ELSE hash(Last(ch))]
    IN  [block |-> block, chain |-> Append(ch, block), current_transactions |-> <<>>]

\* new_block leaving the pool as it was
new_block_keeping_pool(ch, txs, proof, previous_hash, now) ==
    LET block == [index |-> Len(ch) + 1,
                  timestamp |-> now,
                  transactions |-> txs,
                  proof |-> proof,
                  previous_hash |-> IF previous_hash # <<>> THEN previous_hash
                                    ELSE hash(Last(ch))]
    IN  [block |-> block, chain |-> Append(ch, block), current_transactions |-> txs]

\* Blockchain.new_block on a ledger with chain ch and pool txs at time now;
\* previous_hash = <<>> stands for None
new_block(ch, txs, proof, previous_hash, now) ==
    LET block == [index |-> Len(ch) + 1,
                  timestamp |-> now,
                  transactions |-> txs,
                  proof |-> proof,
                  previous_hash |-> IF previous_hash # <<>> THEN previous_hash
                                    ELSE hash(Last(ch))]
    IN  [block |-> block, chain |-> Append(ch, block), current_transactions |-> <<>>]

\* new_transaction putting the transaction in front of the pool
new_transaction_in_front(ch, txs, sender, recipient, amount) ==
    [current_transactions |->
         <<[sender |-> sender, recipient |-> recipient, amount |-> amount]>> \o txs,
     ret |-> Last(ch).index + 1]

\* Blockchain.new_transaction on a ledger with chain ch and pool txs
new_transaction(ch, txs, sender, recipient, amount) ==
    [current_transactions |->
         Append(txs, [sender |-> sender, recipient |-> recipient, amount |-> amount]),
     ret |-> Last(ch).index + 1]

\* __init__ with other values in the first block
genesis_unsealed(now) == new_block(<<>>, <<>>, 0, <<0>>, now)

\* __init__ without its call of new_block
genesis_unbuilt(now) ==
    [block |-> [index |-> 0], chain |-> <<>>, current_transactions |-> <<>>]

\* Blockchain.__init__ at time now: the genesis block
genesis(now) == new_block(<<>>, <<>>, GenesisProof, <<1>>, now)

\* mine() linking the new block to the hash the last block stores
mine_stored_hash(ch, txs, id, now) ==
    LET last_block == Last(ch)
        last_proof == last_block.proof
        last_hash == hash(last_block)
        proof == proof_of_work(last_proof, last_hash)
        rewarded == new_transaction(ch, txs, 0, id, 1)
        forged == new_block(ch, rewarded.current_transactions, proof,
                            last_block.previous_hash, now)
    IN  [proof |-> proof, rewarded |-> rewarded, forged |-> forged]

\* mine() searching the proof against the hash the last block stores
mine_against_stored_hash(ch, txs, id, now) ==
    LET last_block == Last(ch)
        last_proof == last_block.proof
        last_hash == hash(last_block)
        proof == proof_of_work(last_proof, last_block.previous_hash)
        rewarded == new_transaction(ch, txs, 0, id, 1)
        forged == new_block(ch, rewarded.current_transactions, proof, last_hash, now)
    IN  [proof |-> proof, rewarded |-> rewarded, forged |-> forged]

\* the body of mine() on a ledger with chain ch and pool txs, for node id
mine(ch, txs, id, now) ==
    LET last_block == Last(ch)
        last_proof == last_block.proof
        last_hash == hash(last_block)
        proof == proof_of_work(last_proof, last_hash)
        rewarded == new_transaction(ch, txs, 0, id, 1)
        forged == new_block(ch, rewarded.current_transactions, proof, last_hash, now)
    IN  [proof |-> proof, rewarded |-> rewarded, forged |-> forged]

\* --------------------------------------------------------------- validator
RECURSIVE valid_chain_loop_proofs_only(_, _, _)
\* valid_chain_loop without the comparison of previous_hash
valid_chain_loop_proofs_only(ch, last_block, current_index) ==
    IF current_index > Len(ch) THEN "True"
    ELSE LET block == ch[current_index] IN
         IF "previous_hash" \notin DOMAIN block THEN "KeyError"
         ELSE IF "proof" \notin DOMAIN last_block \/ "proof" \notin DOMAIN block
             THEN "KeyError"
         ELSE IF ~valid_proof(last_block.proof, block.proof,
                              IF "previous_hash" \in DOMAIN last_block
                                  THEN last_block.previous_hash
                                  ELSE hash(last_block),
                              DefaultTarget)
             THEN "False"
         ELSE valid_chain_loop_proofs_only(ch, block, current_index + 1)

RECURSIVE valid_chain_loop(_, _, _)
\* the while loop of valid_chain: "True", "False" or the exception raised
valid_chain_loop(ch, last_block, current_index) ==
    IF current_index > Len(ch) THEN "True"
    ELSE LET block == ch[current_index] IN
         IF "previous_hash" \notin DOMAIN block THEN "KeyError"
         ELSE IF block.previous_hash # hash(last_block) THEN "False"
         ELSE IF "proof" \notin DOMAIN last_block \/ "proof" \notin DOMAIN block
             THEN "KeyError"
         ELSE IF ~valid_proof(last_block.proof, block.proof,
                              IF "previous_hash" \in DOMAIN last_block
                                  THEN last_block.previous_hash
                                  ELSE hash(last_block),
                              DefaultTarget)
             THEN "False"
         ELSE valid_chain_loop(ch, block, current_index + 1)

\* Blockchain.valid_chain: its result, or the exception it raises
valid_chain_run(ch) ==
    IF ch = <<>> THEN "IndexError" ELSE valid_chain_loop(ch, ch[1], 2)

valid_chain(ch) == valid_chain_run(ch) = "True"

\* ------------------------------------------------------------------ inputs
\* time.time()
Timestamps == {1}

\* the transactions submitted to /transactions/new
TxInputs == [sender : {3}, recipient : {4}, amount : {2}]

\* the same and a second amount
MoreTxInputs == [sender : {3}, recipient : {4}, amount : {2, 5}]

\* the reward transaction of mine() for node id
Reward(id) == [sender |-> 0, recipient |-> id, amount |-> 1]

\* urlparse(address): the addresses submitted to /nodes/register
Addresses ==
    { [netloc |-> "10.0.0.1:5000", path |-> ""],
      [netloc |-> "10.0.0.1:5000", path |-> "/chain"],
      [netloc |-> "", path |-> "10.0.0.2:5000"],
      [netloc |-> "", path |-> ""] }

\* the same and the address of a third peer
MoreAddresses == Addresses \cup { [netloc |-> "10.0.0.3:5000", path |-> ""] }

RECURSIVE MinedChain(_, _)
\* the chain of a peer that runs this program: n - 1 calls of mine()
MinedChain(n, id) ==
    IF n = 1 THEN genesis(1).chain
    ELSE mine(MinedChain(n - 1, id), <<>>, id, 1).forged.chain

\* a block appended to c whose proof is searched against the reference
\* valid_chain uses, numbered shift off its position
forge(c, id, shift) ==
    LET last_block == Last(c)
        proof == pow_search(last_block.proof, last_block.previous_hash, DefaultTarget, 0)
        block == [index |-> Len(c) + 1 + shift,
                  timestamp |-> 1,
                  transactions |-> <<Reward(id)>>,
                  proof |-> proof,
                  previous_hash |-> hash(last_block)]
    IN  Append(c, block)

RECURSIVE ForgedChain(_, _, _)
\* a chain of n blocks grown from the genesis block by forge
ForgedChain(n, id, shift) ==
    IF n = 1 THEN genesis(1).chain ELSE forge(ForgedChain(n - 1, id, shift), id, shift)

\* a first block that is not the one __init__ builds
ForeignGenesis ==
    [index |-> 1, timestamp |-> 1, transactions |-> <<>>, proof |-> 0,
     previous_hash |-> <<0>>]

\* chain c with field f of its last block set to v
WithLast(c, f, v) == [c EXCEPT ![Len(c)] = [@ EXCEPT ![f] = v]]

\* chain c with field f of its last block missing
WithoutLast(c, f) ==
    [c EXCEPT ![Len(c)] = [g \in (DOMAIN @) \ {f} |-> @[g]]]

\* a response with status 200 and the body of full_chain()
Served(length, c) == [kind |-> "ok", data |-> [length |-> length, chain |-> c]]

\* what requests.get(...) gives for a peer, by name: a RequestException, a
\* status other than 200, or a body
ResponseOf ==
    [exception |-> [kind |-> "exception"],
     status |-> [kind |-> "status"],
     forged2 |-> Served(2, ForgedChain(2, PeerId, 0)),
     forged3 |-> Served(3, ForgedChain(3, PeerId, 0)),
     longest |-> Served(MaxPeerLen, ForgedChain(MaxPeerLen, PeerId, 0)),
     rival |-> Served(MaxPeerLen, ForgedChain(MaxPeerLen, NodeId, 0)),
     mined2 |-> Served(2, MinedChain(2, PeerId)),
     renumbered |-> Served(3, ForgedChain(3, PeerId, 4)),
     unlinked |-> Served(3, WithLast(ForgedChain(3, PeerId, 0), "previous_hash", <<1>>)),
     proofless |-> Served(3, WithoutLast(ForgedChain(3, PeerId, 0), "proof")),
     overstated |-> Served(MaxPeerLen, ForgedChain(2, PeerId, 0)),
     empty |-> Served(MaxPeerLen, <<>>),
     lengthless |-> [kind |-> "ok", data |-> [chain |-> ForgedChain(2, PeerId, 0)]],
     foreign |-> Served(2, forge(<<ForeignGenesis>>, PeerId, 0))]

\* the names of the responses
Responses == DOMAIN ResponseOf

\* the responses of a network where a peer is down, serves the longest
\* chain valid_chain accepts, or serves no block at all
Outages == {"exception", "status", "longest", "empty"}

\* --------------------------------------------------------------- consensus
\* new_chain = None of resolve_conflicts; as falsy as the empty list, which
\* the scan never assigns because valid_chain raises on it
None == <<>>

RECURSIVE scan_peers(_, _, _, _)
\* the for loop of resolve_conflicts over the responses of the peers, in the
\* order of the iteration: [raised, max_length, new_chain] when it ends
scan_peers(responses, i, max_length, new_chain) ==
    IF i > Len(responses)
        THEN [raised |-> "", max_length |-> max_length, new_chain |-> new_chain]
    ELSE LET resp == responses[i] IN
         IF resp.kind # "ok"
             THEN scan_peers(responses, i + 1, max_length, new_chain)
         ELSE IF "length" \notin DOMAIN resp.data \/ "chain" \notin DOMAIN resp.data
             THEN [raised |-> "KeyError", max_length |-> max_length,
                   new_chain |-> new_chain]
         ELSE IF resp.data.length > max_length
             THEN LET v == valid_chain_run(resp.data.chain) IN
                  IF v = "True"
                      THEN scan_peers(responses, i + 1, resp.data.length, resp.data.chain)
                  ELSE IF v = "False"
                      THEN scan_peers(responses, i + 1, max_length, new_chain)
                  ELSE [raised |-> v, max_length |-> max_length, new_chain |-> new_chain]
         ELSE scan_peers(responses, i + 1, max_length, new_chain)

\* Blockchain.resolve_conflicts on a ledger with chain ch, the peers
\* answering with responses: the chain afterwards and the value returned,
\* or the exception that left the method
resolve_conflicts(ch, responses) ==
    LET s == scan_peers(responses, 1, Len(ch), None) IN
    IF s.raised # "" THEN [raised |-> s.raised, chain |-> ch, ret |-> FALSE]
    ELSE IF s.new_chain # None THEN [raised |-> "", chain |-> s.new_chain, ret |-> TRUE]
    ELSE [raised |-> "", chain |-> ch, ret |-> FALSE]

\* Blockchain.register_node: the peer set after address is registered
\* (a ValueError leaves it as it was, register_nodes continues)
register_node(ns, address) ==
    IF address.netloc # "" THEN ns \cup {address.netloc}
    ELSE IF address.path # "" THEN ns \cup {address.path}
    ELSE ns

\* the orders in which `for node in neighbours` may visit the set ns
Orders(ns) ==
    { o \in [1..Cardinality(ns) -> ns] : \A i, j \in DOMAIN o : i # j => o[i] # o[j] }

\* ----------------------------------------------------------------- actions
Returned(v) == [raised |-> "", value |-> v]

\* the threads of the server that handle requests
Threads == {1, 2}

\* the local variables of a thread that handles no request
Idle ==
    [pc |-> "idle", last_proof |-> 0, last_hash |-> <<>>, proof |-> 0,
     block |-> [index |-> 0], live |-> FALSE]

\* no request is being handled
NoRequest == [t \in Threads |-> Idle]

\* the responses the last resolve_conflicts met, in the order of its scan
scanned == [i \in DOMAIN order |-> ResponseOf[net[order[i]]]]

Init ==
    /\ \E now \in Timestamps :
          LET g == genesis(now) IN
          /\ chain = g.chain
          /\ current_transactions = g.current_transactions
    /\ nodes = {}
    /\ net = <<>>
    /\ op = "init"
    /\ ret = Returned(0)
    /\ order = <<>>
    /\ before = <<>>
    /\ pending = <<>>
    /\ threads = NoRequest

\* POST /transactions/new with one of inputs, offered while the pool holds
\* fewer than room
Record(inputs, room) ==
    /\ Len(current_transactions) < room
    /\ \E values \in inputs :
          LET r == new_transaction(chain, current_transactions,
                                   values.sender, values.recipient, values.amount)
          IN  /\ current_transactions' = r.current_transactions
              /\ ret' = Returned(r.ret)
              /\ pending' = Append(pending, values)
    /\ op' = "record"
    /\ before' = chain
    /\ order' = <<>>
    /\ UNCHANGED <<chain, nodes, net, threads>>

\* GET /mine
Mine ==
    /\ Len(chain) < MaxChain
    /\ \E now \in Timestamps :
          LET m == mine(chain, current_transactions, NodeId, now) IN
          /\ m.proof <= MaxProof
          /\ chain' = m.forged.chain
          /\ current_transactions' = m.forged.current_transactions
          /\ ret' = Returned(m.forged.block.index)
    /\ pending' = <<>>
    /\ op' = "mine"
    /\ before' = chain
    /\ order' = <<>>
    /\ UNCHANGED <<nodes, net, threads>>

\* POST /nodes/register with one address out of addresses; a peer that was
\* not known is down until it answers
Register(addresses) ==
    /\ \E address \in addresses :
          /\ nodes' = register_node(nodes, address)
          /\ net' = [n \in nodes' |-> IF n \in nodes THEN net[n] ELSE "exception"]
    /\ op' = "register"
    /\ ret' = Returned(Cardinality(nodes'))
    /\ before' = chain
    /\ order' = <<>>
    /\ UNCHANGED <<chain, current_transactions, pending, threads>>

\* the network: from now on peer n answers GET /chain with one of responses
Answer(responses) ==
    /\ \E n \in nodes, r \in responses :
          /\ net[n] # r
          /\ net' = [net EXCEPT ![n] = r]
    /\ op' = "answer"
    /\ ret' = Returned(0)
    /\ before' = chain
    /\ order' = <<>>
    /\ UNCHANGED <<chain, current_transactions, nodes, pending, threads>>

\* GET /nodes/resolve
Resolve ==
    /\ \E o \in Orders(nodes) :
          LET r == resolve_conflicts(chain, [i \in DOMAIN o |-> ResponseOf[net[o[i]]]]) IN
          /\ chain' = r.chain
          /\ ret' = [raised |-> r.raised, value |-> r.ret]
          /\ order' = o
    /\ op' = "resolve"
    /\ before' = chain
    /\ UNCHANGED <<current_transactions, nodes, net, pending, threads>>

\* a node with two peers that answer in every way
Next ==
    \/ Record(TxInputs, MaxPool)
    \/ Mine
    \/ Register(Addresses)
    \/ Answer(Responses)
    \/ Resolve

Spec == Init /\ [][Next]_vars

\* a node with three peers in a network with outages
NextOutage ==
    \/ Record(TxInputs, MaxPool)
    \/ Mine
    \/ Register(MoreAddresses)
    \/ Answer(Outages)
    \/ Resolve

SpecOutage == Init /\ [][NextOutage]_vars

\* a node that records and mines, and never resolves
NextLocal ==
    \/ Record(MoreTxInputs, MaxLocalPool)
    \/ Mine

SpecLocal == Init /\ [][NextLocal]_vars

\* ------------------------------------------------- the validator, alone
\* the transaction lists of the blocks of a candidate chain
TxLists == { <<>>, <<[sender |-> 3, recipient |-> 4, amount |-> 2]>> }

\* the blocks valid_chain accepts after the last block of c: linked to it,
\* with any proof up to MaxProof that meets the target
Accepted(c) ==
    LET last_block == Last(c) IN
    { [index |-> Len(c) + 1, timestamp |-> 1, transactions |-> txs, proof |-> p,
       previous_hash |-> hash(last_block)] :
          txs \in TxLists,
          p \in { q \in 0..MaxProof :
                    valid_proof(last_block.proof, q, last_block.previous_hash,
                                DefaultTarget) } }

\* the chains of three blocks grown that way from a first block
Chains3 ==
    LET firsts == { <<[index |-> 1, timestamp |-> 1, transactions |-> txs,
                       proof |-> GenesisProof, previous_hash |-> <<1>>]>> :
                        txs \in TxLists }
        seconds == UNION { { Append(c, b) : b \in Accepted(c) } : c \in firsts }
    IN  UNION { { Append(c, b) : b \in Accepted(c) } : c \in seconds }

\* the values a tampered field takes
TamperedProofs == 0..MaxProof
TamperedHashes == { <<1>>, HexDigits(0, DigestLen), HexDigits(HashSpace - 1, DigestLen) }
TamperedAmounts == { 2, 3 }

\* chain c with field f of block i set to v
WithField(c, i, f, v) == [c EXCEPT ![i] = [@ EXCEPT ![f] = v]]

\* chain c with the amount of transaction j of block i set to v
WithAmount(c, i, j, v) ==
    [c EXCEPT ![i] = [@ EXCEPT !.transactions = [@ EXCEPT ![j] = [@ EXCEPT !.amount = v]]]]

\* the chains that differ from c in one proof, one previous_hash or one amount
Tamperings(c) ==
    ({ WithField(c, i, "proof", v) : i \in DOMAIN c, v \in TamperedProofs }
        \cup { WithField(c, i, "previous_hash", v) : i \in DOMAIN c, v \in TamperedHashes }
        \cup UNION { { WithAmount(c, i, j, v) :
                         j \in DOMAIN c[i].transactions, v \in TamperedAmounts } :
                     i \in DOMAIN c })
    \ {c}

\* a chain of three blocks valid_chain accepts
InitTamper ==
    /\ chain \in Chains3
    /\ valid_chain(chain)
    /\ current_transactions = <<>>
    /\ nodes = {}
    /\ net = <<>>
    /\ op = "init"
    /\ ret = Returned("True")
    /\ order = <<>>
    /\ before = <<>>
    /\ pending = <<>>
    /\ threads = NoRequest

\* valid_chain applied to the chain with one field changed
Tamper ==
    /\ op = "init"
    /\ \E t \in Tamperings(chain) :
          /\ chain' = t
          /\ ret' = Returned(valid_chain_run(t))
    /\ op' = "tamper"
    /\ before' = chain
    /\ UNCHANGED <<current_transactions, nodes, net, order, pending, threads>>

SpecTamper == InitTamper /\ [][Tamper]_vars

\* ------------------------------------------------------ concurrent requests
\* GET /mine in thread t, line by line.  Lines 177-179: the last block, its
\* proof and its hash
MineRead(t) ==
    /\ threads[t].pc = "idle"
    /\ Len(chain) < MaxChain
    /\ threads' = [threads EXCEPT ![t] =
                      [@ EXCEPT !.pc = "read",
                                !.last_proof = Last(chain).proof,
                                !.last_hash = hash(Last(chain))]]
    /\ UNCHANGED <<chain, current_transactions, nodes, net, op, ret, order, before,
                   pending>>

\* line 180: proof_of_work
MineSolve(t) ==
    /\ threads[t].pc = "read"
    /\ LET proof == proof_of_work(threads[t].last_proof, threads[t].last_hash) IN
       /\ proof <= MaxProof
       /\ threads' = [threads EXCEPT ![t] = [@ EXCEPT !.pc = "solved", !.proof = proof]]
    /\ UNCHANGED <<chain, current_transactions, nodes, net, op, ret, order, before,
                   pending>>

\* lines 183-187: the reward is appended to the list the pool is bound to
MineReward(t) ==
    /\ threads[t].pc = "solved"
    /\ current_transactions' =
           new_transaction(chain, current_transactions, 0, NodeId, 1).current_transactions
    /\ threads' = [threads EXCEPT ![t] = [@ EXCEPT !.pc = "rewarded"]]
    /\ UNCHANGED <<chain, nodes, net, op, ret, order, before, pending>>

\* lines 102-108 of new_block: the block is built; its 'transactions' is the
\* list the pool is bound to, so it is live: it holds what the pool holds
\* until the pool is bound to another list
MineBuild(t) ==
    /\ threads[t].pc = "rewarded"
    /\ \E now \in Timestamps :
          threads' = [threads EXCEPT ![t] =
                         [@ EXCEPT !.pc = "built",
                                   !.live = TRUE,
                                   !.block = [index |-> Len(chain) + 1,
                                              timestamp |-> now,
                                              transactions |-> current_transactions,
                                              proof |-> threads[t].proof,
                                              previous_hash |-> threads[t].last_hash]]]
    /\ UNCHANGED <<chain, current_transactions, nodes, net, op, ret, order, before,
                   pending>>

\* line 111 of new_block: the pool is bound to a new empty list; the blocks
\* built on the old list keep what it holds
MineReset(t) ==
    /\ threads[t].pc = "built"
    /\ threads' =
          [u \in Threads |->
              LET frozen == IF threads[u].live
                                THEN [threads[u] EXCEPT
                                         !.live = FALSE,
                                         !.block = [@ EXCEPT !.transactions =
                                                                 current_transactions]]
                                ELSE threads[u]
              IN  IF u = t THEN [frozen EXCEPT !.pc = "reset"] ELSE frozen]
    /\ current_transactions' = <<>>
    /\ pending' = <<>>
    /\ UNCHANGED <<chain, nodes, net, op, ret, order, before>>

\* line 113 of new_block and the response of mine()
MineAppend(t) ==
    /\ threads[t].pc = "reset"
    /\ chain' = Append(chain, threads[t].block)
    /\ ret' = Returned(threads[t].block.index)
    /\ op' = "mine"
    /\ before' = chain
    /\ order' = <<>>
    /\ threads' = [threads EXCEPT ![t] = Idle]
    /\ UNCHANGED <<current_transactions, nodes, net, pending>>

\* a server with one peer that serves a chain of three blocks
InitConcurrent ==
    /\ \E now \in Timestamps :
          LET g == genesis(now) IN
          /\ chain = g.chain
          /\ current_transactions = g.current_transactions
    /\ nodes = {"10.0.0.1:5000"}
    /\ net = [n \in nodes |-> "forged3"]
    /\ op = "init"
    /\ ret = Returned(0)
    /\ order = <<>>
    /\ before = <<>>
    /\ pending = <<>>
    /\ threads = NoRequest

\* the requests the threads of the server handle at once: GET /mine line by
\* line, the other two in one step each
NextConcurrent ==
    \/ \E t \in Threads :
          \/ MineRead(t)
          \/ MineSolve(t)
          \/ MineReward(t)
          \/ MineBuild(t)
          \/ MineReset(t)
          \/ MineAppend(t)
    \/ Record(TxInputs, MaxPool)
    \/ Resolve

SpecConcurrent == InitConcurrent /\ [][NextConcurrent]_vars

\* ---------------------------------------------------- proof of work, alone
\* the arguments of proof_of_work: the proofs and the digests
LastProofs == (0..MaxLastProof) \cup {GenesisProof}
LastHashes == { HexDigits(h, DigestLen) : h \in 0..(HashSpace - 1) }

\* a ledger whose last block holds a pair (last_proof, last_hash)
InitSolve ==
    /\ chain \in { <<[index |-> 1, timestamp |-> 1, transactions |-> <<>>,
                      proof |-> last_proof, previous_hash |-> last_hash]>> :
                        last_proof \in LastProofs, last_hash \in LastHashes }
    /\ current_transactions = <<>>
    /\ nodes = {}
    /\ net = <<>>
    /\ op = "init"
    /\ ret = Returned(0)
    /\ order = <<>>
    /\ before = <<>>
    /\ pending = <<>>
    /\ threads = NoRequest

\* proof_of_work applied to the pair
Solve ==
    /\ op = "init"
    /\ ret' = Returned(proof_of_work(Last(chain).proof, Last(chain).previous_hash))
    /\ op' = "solve"
    /\ before' = chain
    /\ UNCHANGED <<chain, current_transactions, nodes, net, order, pending, threads>>

SpecSolve == InitSolve /\ [][Solve]_vars

\* ------------------------------------------------------------------ claims
\* C1: every chain a fresh ledger reaches by trigger-mine operations, with
\* record-transaction interleaved, is a chain valid_chain accepts: the
\* solver and the validator agree on the reference hash.
C1_RoundTripValid == Len(chain) >= 2 => valid_chain(chain)

\* C2: without a chain replacement, the previous_hash of every block after
\* the first is the hash of the block before it.
C2_Linking ==
    \A i \in 2..Len(chain) : chain[i].previous_hash = hash(chain[i - 1])

\* three blocks, the last two mined one after the other
C2_Witness ==
    /\ op = "mine"
    /\ Len(chain) = 3
    /\ chain[3].previous_hash = hash(chain[2])
    /\ chain[2].previous_hash = hash(chain[1])

\* C9: trigger-mine leaves the pool empty and puts the transactions recorded
\* since the last block, in the order of their submission and followed by
\* the reward, into the new block; record-transaction appends to the pool
\* and leaves every block as it was.
C9_PoolSemantics ==
    [][/\ op' = "mine" =>
            /\ current_transactions' = <<>>
            /\ Len(chain') = Len(chain) + 1
            /\ Last(chain').transactions = pending \o <<Reward(NodeId)>>
       /\ op' = "record" =>
            /\ chain' = chain
            /\ current_transactions' = pending'
            /\ Len(pending') = Len(pending) + 1]_vars

\* two different transactions were recorded, then mined in that order, and
\* a transaction recorded afterwards sits in the pool alone
C9_Witness ==
    /\ op = "record"
    /\ Len(current_transactions) = 1
    /\ Len(chain) = 2
    /\ Len(chain[2].transactions) = 3
    /\ chain[2].transactions[1] # chain[2].transactions[2]
    /\ chain[2].transactions[3] = Reward(NodeId)

\* the one block in which chain differs from before
Changed == CHOOSE i \in DOMAIN chain : chain[i] # before[i]

\* C5 as stated: valid_chain rejects every chain that differs from a chain
\* of three blocks it accepts in one proof, one previous_hash or one amount.
C5_TamperRejected == op = "tamper" => ret.value = "False"

\* C5: valid_chain rejects the change of the previous_hash of the second or
\* third block, and every change of the first or second block that changes
\* its hash.
C5_LinkedTamperRejected ==
    (/\ op = "tamper"
     /\ \/ Changed >= 2 /\ chain[Changed].previous_hash # before[Changed].previous_hash
        \/ Changed < Len(chain) /\ hash(chain[Changed]) # hash(before[Changed]))
        => ret.value = "False"

\* an amount of the second block was changed and the chain rejected
C5_Witness ==
    /\ op = "tamper"
    /\ Changed = 2
    /\ chain[2].transactions # before[2].transactions
    /\ ret.value = "False"

\* the peers of the last scan that served, with a length above that of the
\* chain ch, a chain valid_chain accepts
Candidates(ch, responses) ==
    { i \in DOMAIN responses :
        /\ responses[i].kind = "ok"
        /\ "length" \in DOMAIN responses[i].data
        /\ "chain" \in DOMAIN responses[i].data
        /\ responses[i].data.length > Len(ch)
        /\ valid_chain_run(responses[i].data.chain) = "True" }

\* C3: when a peer serves a longer chain that valid_chain accepts,
\* resolve_conflicts returns True and the chain is then a candidate of the
\* greatest length served, in whatever order the peers were visited.
C3_LongestAdopted ==
    (op = "resolve" /\ Candidates(before, scanned) # {}) =>
        /\ ret.raised = ""
        /\ ret.value = TRUE
        /\ \E i \in Candidates(before, scanned) :
              /\ chain = scanned[i].data.chain
              /\ \A j \in Candidates(before, scanned) :
                    scanned[j].data.length <= scanned[i].data.length

\* C4: resolve_conflicts returns True only when it replaced the chain by a
\* candidate, and when no peer serves a longer chain that valid_chain
\* accepts it returns False and the chain is what it was.
C4_Untouched ==
    op = "resolve" =>
        /\ (ret.raised = "" /\ ret.value = TRUE) =>
              \E i \in Candidates(before, scanned) : chain = scanned[i].data.chain
        /\ Candidates(before, scanned) = {} =>
              /\ ret.raised = ""
              /\ ret.value = FALSE
              /\ chain = before

RECURSIVE Embedded(_)
\* the transactions of the blocks of ch, in order
Embedded(ch) ==
    IF ch = <<>> THEN <<>> ELSE Embedded(SubSeq(ch, 1, Len(ch) - 1)) \o Last(ch).transactions

RECURSIVE SeqToBag(_)
SeqToBag(s) == IF s = <<>> THEN EmptyBag ELSE SetToBag({Head(s)}) (+) SeqToBag(Tail(s))

\* the transactions in the blocks of ch and in the pool txs
Held(ch, txs) == SeqToBag(Embedded(ch) \o txs)

\* C6 as stated: every transaction recorded is in the pool or in one block
\* of the chain, and nothing else is: each step adds to the transactions
\* held the ones it recorded, and takes none away.
C6_Partition ==
    [][Held(chain', current_transactions') =
           Held(chain, current_transactions)
               (+) (IF op' = "record" THEN SetToBag({Last(pending')})
                    ELSE IF op' = "mine" THEN SetToBag({Reward(NodeId)})
                    ELSE EmptyBag)]_vars

\* C6: the same of every step but a resolve_conflicts that replaces the
\* chain.
C6_PartitionKept ==
    [][\/ op' = "resolve" /\ ret'.raised = "" /\ ret'.value = TRUE
       \/ Held(chain', current_transactions') =
              Held(chain, current_transactions)
                  (+) (IF op' = "record" THEN SetToBag({Last(pending')})
                       ELSE IF op' = "mine" THEN SetToBag({Reward(NodeId)})
                       ELSE EmptyBag)]_vars

\* a resolve_conflicts that replaced nothing, on a ledger with two mined
\* blocks and a transaction in the pool
C6_Witness ==
    /\ op = "resolve"
    /\ ret.raised = ""
    /\ ret.value = FALSE
    /\ order # <<>>
    /\ Len(chain) = 3
    /\ Len(chain[2].transactions) = 2
    /\ Len(current_transactions) = 1

\* C7: the block at position i of the chain has index i.
C7_IndexContiguity == \A i \in DOMAIN chain : chain[i].index = i

\* C8: what new_transaction returns is the index of the block in which the
\* next trigger-mine embeds the transaction.
C8_PromisedIndex ==
    op = "record" =>
        ret.value = mine(chain, current_transactions, NodeId, 1).forged.block.index

\* C10: a peer that cannot be reached is skipped: when another peer serves
\* a longer chain that valid_chain accepts, resolve_conflicts returns True
\* and the chain is then such a candidate.
C10_OutageSkipped ==
    (/\ op = "resolve"
     /\ \E i \in DOMAIN scanned : scanned[i].kind # "ok"
     /\ Candidates(before, scanned) # {}) =>
        /\ ret.raised = ""
        /\ ret.value = TRUE
        /\ \E i \in Candidates(before, scanned) : chain = scanned[i].data.chain

\* true when sequence s is the beginning of sequence t
IsPrefix(s, t) == Len(s) <= Len(t) /\ SubSeq(t, 1, Len(s)) = s

\* C11: record-transaction and trigger-mine leave the chain they found as
\* the beginning of the chain they leave, and a transaction leaves the pool
\* only into the block trigger-mine appends; the chain stops being the
\* beginning of its successor only in a resolve_conflicts that returns True.
C11_AppendOnly ==
    [][/\ op' = "record" => chain' = chain /\ IsPrefix(current_transactions, current_transactions')
       /\ op' = "mine" =>
            /\ IsPrefix(chain, chain')
            /\ Len(chain') = Len(chain) + 1
            /\ IsPrefix(current_transactions, Last(chain').transactions)
       /\ op' \notin {"record", "mine"} => current_transactions' = current_transactions
       /\ ~IsPrefix(chain, chain') =>
            op' = "resolve" /\ ret'.raised = "" /\ ret'.value = TRUE]_vars

\* a block was mined with a recorded transaction on top of a mined block
C11_Witness ==
    /\ op = "mine"
    /\ Len(chain) = 3
    /\ Len(before) = 2
    /\ IsPrefix(before, chain)
    /\ Len(chain[3].transactions) = 2
    /\ chain[3].transactions[2] = Reward(NodeId)

\* C13: a ledger just constructed holds one block, with index 1, proof 100,
\* previous_hash "1" and no transaction, an empty pool and no peer.
C13_Genesis ==
    op = "init" =>
        /\ Len(chain) = 1
        /\ chain[1].index = 1
        /\ chain[1].proof = 100
        /\ chain[1].previous_hash = Str(1)
        /\ chain[1].transactions = <<>>
        /\ current_transactions = <<>>
        /\ nodes = {}

\* the ledger just constructed
C13_Witness == op = "init" /\ chain = genesis(1).chain /\ threads = NoRequest

\* the peers of the scan whose candidate is as long as the longest
Longest(ch, responses) ==
    { i \in Candidates(ch, responses) :
        \A j \in Candidates(ch, responses) :
            responses[j].data.length <= responses[i].data.length }

\* C15: when several peers serve different candidates of the greatest
\* length, resolve_conflicts adopts the one it visited last.
C15_TieLast ==
    (/\ op = "resolve"
     /\ ret.raised = ""
     /\ Cardinality(Longest(before, scanned)) >= 2) =>
        \E i \in Longest(before, scanned) :
            /\ \A j \in Longest(before, scanned) : j <= i
            /\ chain = scanned[i].data.chain

\* C16: the first block of the chain is the genesis block, with proof 100
\* and previous_hash "1", whatever was adopted.
C16_GenesisFixed ==
    /\ chain # <<>>
    /\ chain[1].proof = GenesisProof
    /\ chain[1].previous_hash = Str(1)

\* C17: the chain holds a block in every state, whatever the peers serve.
C17_NeverEmpty == Len(chain) >= 1

\* resolve_conflicts met a peer that served, with a length above that of
\* the local chain, no block at all
C17_Witness ==
    /\ op = "resolve"
    /\ \E i \in DOMAIN scanned :
          /\ scanned[i] = ResponseOf["empty"]
          /\ \A j \in 1..(i - 1) : scanned[j].kind # "ok"
    /\ chain = before

\* C19: a resolve_conflicts that replaces the chain leaves it longer than it
\* found it, whatever length the peer reported.
C19_NeverShorter ==
    (op = "resolve" /\ ret.raised = "" /\ ret.value = TRUE) => Len(chain) > Len(before)

\* C20: resolve_conflicts returns True or False whatever body a peer answers
\* with; no response ends the scan.
C20_Total == op = "resolve" => ret.raised = "" /\ ret.value \in BOOLEAN

\* C12: the proof that proof_of_work returns meets the target, and no
\* smaller nonce does.
C12_MinimalProof ==
    (op = "solve" /\ ret.value <= MaxProof) =>
        /\ valid_proof(Last(chain).proof, ret.value, Last(chain).previous_hash,
                       DefaultTarget)
        /\ \A q \in 0..(ret.value - 1) :
              ~valid_proof(Last(chain).proof, q, Last(chain).previous_hash,
                           DefaultTarget)

\* a search that passed over two nonces at least
C12_Witness == op = "solve" /\ ret.value >= 2 /\ ret.value <= MaxProof

\* C18: the proof of a block that trigger-mine appends meets the target
\* with the proof and the hash of the block before it, and that hash is the
\* previous_hash the block stores.
C18_MinerBinding ==
    op = "mine" =>
        LET B == Last(chain)
            prev == chain[Len(chain) - 1]
        IN  /\ valid_proof(prev.proof, B.proof, hash(prev), DefaultTarget)
            /\ B.previous_hash = hash(prev)

\* a block mined on top of a mined block that holds a recorded transaction
C18_Witness ==
    /\ op = "mine"
    /\ Len(chain) = 3
    /\ Len(chain[2].transactions) = 2
    /\ chain[3].proof # chain[2].proof

\* no request is in progress
Quiescent == \A t \in Threads : threads[t].pc = "idle"

\* the transactions the blocks being built in the threads hold
InFlight(th, txs) ==
    UNION { IF th[t].pc \in {"built", "reset"}
                THEN { (IF th[t].live THEN txs ELSE th[t].block.transactions)[k] :
                         k \in DOMAIN (IF th[t].live THEN txs
                                       ELSE th[t].block.transactions) }
                ELSE {} : t \in Threads }

\* C14: whatever way the lines of the requests interleave, once they are
\* done no two blocks of the chain have the same index and every block
\* stores the hash of the block before it, and no step takes a transaction
\* out of the pool other than into a block.
C14_Serialized ==
    [][/\ Quiescent' =>
            /\ \A i, j \in DOMAIN chain' : i # j => chain'[i].index # chain'[j].index
            /\ \A i \in 2..Len(chain') : chain'[i].previous_hash = hash(chain'[i - 1])
       /\ \A k \in DOMAIN current_transactions :
            \/ \E j \in DOMAIN current_transactions' :
                  current_transactions'[j] = current_transactions[k]
            \/ current_transactions[k] \in InFlight(threads', current_transactions')]_vars

=============================================================================
